---------------------------- MODULE Spec2Model ----------------------------
(***************************************************************************)
(* Model of the pub-quiz session server (src/server.js): the session state *)
(* object `gameState`, one action per socket handler, and the pure helper  *)
(* functions (text matcher, question lookup, public views) as operators.   *)
(*                                                                         *)
(* Representation.  A JavaScript string is a sequence of one-character     *)
(* strings, so that toLowerCase/trim/normalize/includes are computed.      *)
(* A JavaScript Set is a TLA+ set (insertion order is not observed by the  *)
(* server's logic, only size and membership), an Array is a sequence, and  *)
(* an Object used as a map is a sequence of entries in insertion order     *)
(* (Object.entries order for the non-numeric keys used here).              *)
(* An absent string field is Null; an absent number field (tolerance,      *)
(* difficulty) is 0 and an absent acceptedAnswers array is <<>>, which the *)
(* source's `|| 0`, `|| null`, `if (x)` and `for ... of` treat alike.      *)
(***************************************************************************)
EXTENDS Integers, Sequences, FiniteSets, TLC

Null == "null"

-----------------------------------------------------------------------------
(* Characters and String.prototype helpers                                 *)

Tab == "\t"

\* String.prototype.toLowerCase on one character of the alphabet in use.
LowerChar(c) ==
  CASE c = "A" -> "a" [] c = "B" -> "b" [] c = "F" -> "f" [] c = "J" -> "j"
    [] c = "M" -> "m" [] c = "O" -> "o" [] c = "U" -> "u" [] c = "É" -> "é"
    [] OTHER -> c

\* String.prototype.toUpperCase on one character of the alphabet in use.
UpperChar(c) ==
  CASE c = "a" -> "A" [] c = "b" -> "B" [] c = "f" -> "F" [] c = "j" -> "J"
    [] c = "m" -> "M" [] c = "o" -> "O" [] c = "u" -> "U" [] c = "é" -> "É"
    [] OTHER -> c

\* The regular-expression class \s on the alphabet in use.
IsSpace(c) == c = " " \/ c = Tab

toLowerCase(s) == [i \in 1..Len(s) |-> LowerChar(s[i])]

RECURSIVE trimStart(_)
trimStart(s) ==
  IF s # <<>> /\ IsSpace(Head(s)) THEN trimStart(Tail(s)) ELSE s

RECURSIVE trimEnd(_)
trimEnd(s) ==
  IF s # <<>> /\ IsSpace(s[Len(s)]) THEN trimEnd(SubSeq(s, 1, Len(s) - 1)) ELSE s

trim(s) == trimEnd(trimStart(s))

\* .normalize('NFD').replace(/[\u0300-\u036f]/g, ''): the base letter remains.
RECURSIVE stripAccents(_)
stripAccents(s) ==
  IF s = <<>> THEN <<>>
  ELSE <<(IF Head(s) = "é" THEN "e" ELSE Head(s))>> \o stripAccents(Tail(s))

\* .replace(/\s+/g, ' '): every run of whitespace becomes one space.
RECURSIVE collapseSpaces(_)
collapseSpaces(s) ==
  IF s = <<>> THEN <<>>
  ELSE IF IsSpace(Head(s))
       THEN <<" ">> \o collapseSpaces(trimStart(Tail(s)))
       ELSE <<Head(s)>> \o collapseSpaces(Tail(s))

\* String.prototype.includes
includes(s, t) ==
  \E i \in 0..(Len(s) - Len(t)) : SubSeq(s, i + 1, i + Len(t)) = t

normalizeText(text) == collapseSpaces(stripAccents(trim(toLowerCase(text))))

\* name.toLowerCase().split(/(\s+|-)/).map(capitalise first).join(''):
\* a character is upper-cased when it starts the string or follows a
\* separator (a whitespace run or a hyphen); separators are kept.
capitalizeName(name) ==
  LET low == toLowerCase(name)
  IN [i \in 1..Len(low) |->
        IF i = 1 \/ IsSpace(low[i - 1]) \/ low[i - 1] = "-"
        THEN UpperChar(low[i]) ELSE low[i]]

Min2(x, y) == IF x <= y THEN x ELSE y

Min3(x, y, z) == Min2(x, Min2(y, z))

\* The (m+1) x (n+1) table of the source, entry by entry:
\* lev(i, j) is matrix[i][j], over the prefixes b[1..i] and a[1..j].
RECURSIVE levCell(_, _, _, _)
levCell(a, b, i, j) ==
  IF i = 0 THEN j
  ELSE IF j = 0 THEN i
  ELSE Min3(levCell(a, b, i - 1, j) + 1,
            levCell(a, b, i, j - 1) + 1,
            levCell(a, b, i - 1, j - 1) + (IF a[j] = b[i] THEN 0 ELSE 1))

levenshtein(a, b) ==
  IF Len(a) = 0 THEN Len(b)
  ELSE IF Len(b) = 0 THEN Len(a)
  ELSE levCell(a, b, Len(b), Len(a))

getAllowedDistance(wordLength) ==
  IF wordLength <= 4 THEN 1 ELSE IF wordLength <= 8 THEN 2 ELSE 3

-----------------------------------------------------------------------------
(* parseFloat on the characters that survive .replace(/[^0-9.-]/g, '')     *)

Digits == <<"0", "1", "2", "3", "4", "5", "6", "7", "8", "9">>

IsDigit(c) == \E d \in 1..10 : Digits[d] = c

DigitVal(c) == (CHOOSE d \in 1..10 : Digits[d] = c) - 1

\* Decimal digits kept after the point; a number is held as value * 10^FracDigits.
FracDigits == 2

RECURSIVE Pow10(_)
Pow10(k) == IF k = 0 THEN 1 ELSE 10 * Pow10(k - 1)

RECURSIVE keepNumeric(_)
keepNumeric(s) ==
  IF s = <<>> THEN <<>>
  ELSE IF IsDigit(Head(s)) \/ Head(s) = "." \/ Head(s) = "-"
       THEN <<Head(s)>> \o keepNumeric(Tail(s))
       ELSE keepNumeric(Tail(s))

RECURSIVE digitRun(_)
digitRun(s) ==
  IF s # <<>> /\ IsDigit(Head(s)) THEN <<Head(s)>> \o digitRun(Tail(s)) ELSE <<>>

RECURSIVE digitsValue(_)
digitsValue(ds) ==
  IF ds = <<>> THEN 0
  ELSE 10 * digitsValue(SubSeq(ds, 1, Len(ds) - 1)) + DigitVal(ds[Len(ds)])

\* The fraction digits as a number of 10^-FracDigits units (further digits dropped).
fractionValue(ds) ==
  LET kept == SubSeq(ds, 1, Min2(Len(ds), FracDigits))
  IN digitsValue(kept) * Pow10(FracDigits - Len(kept))

\* parseFloat: the longest prefix  -? digits (. digits?)?  or  -? . digits ;
\* nan is TRUE (the result is NaN) when there is none.
parseFloat(s) ==
  LET neg   == s # <<>> /\ Head(s) = "-"
      body  == IF neg THEN Tail(s) ELSE s
      ip    == digitRun(body)
      rest  == SubSeq(body, Len(ip) + 1, Len(body))
      dot   == rest # <<>> /\ Head(rest) = "."
      fp    == IF dot THEN digitRun(Tail(rest)) ELSE <<>>
      mag   == digitsValue(ip) * Pow10(FracDigits) + fractionValue(fp)
  IN [nan |-> ip = <<>> /\ fp = <<>>, num |-> IF neg THEN 0 - mag ELSE mag]

Abs(x) == IF x < 0 THEN 0 - x ELSE x

-----------------------------------------------------------------------------
(* Text matcher                                                            *)

\* question.type || 'text'
typeOf(question) == IF question.type = Null THEN "text" ELSE question.type

\* One accepted alternative of step 3 of checkAnswer.
altMatches(normalizedPlayer, alt) ==
  LET normalizedAlt == normalizeText(alt)
  IN \/ normalizedPlayer = normalizedAlt
     \/ levenshtein(normalizedPlayer, normalizedAlt)
          <= getAllowedDistance(Len(normalizedAlt))
     \/ includes(normalizedAlt, normalizedPlayer) /\ Len(normalizedPlayer) >= 4

checkAnswer(playerAnswer, question) ==
  LET normalizedPlayer == normalizeText(playerAnswer)
      questionType     == typeOf(question)
      correctAnswer    == normalizeText(question.answer)
  IN IF questionType = "multiple-choice"
     THEN normalizedPlayer = normalizeText(question.answer)
     ELSE IF questionType = "number"
     THEN LET playerNum  == parseFloat(keepNumeric(normalizedPlayer))
              correctNum == parseFloat(keepNumeric(question.answer))
              tolerance  == question.tolerance
          IN IF ~playerNum.nan /\ ~correctNum.nan
             THEN Abs(playerNum.num - correctNum.num) <= tolerance * Pow10(FracDigits)
             ELSE FALSE
     ELSE \/ normalizedPlayer = correctAnswer
          \/ levenshtein(normalizedPlayer, correctAnswer)
               <= getAllowedDistance(Len(correctAnswer))
          \/ \E k \in 1..Len(question.acceptedAnswers) :
                  altMatches(normalizedPlayer, question.acceptedAnswers[k])
          \/ /\ Len(normalizedPlayer) >= 4
             /\ \/ includes(correctAnswer, normalizedPlayer)
                \/ includes(normalizedPlayer, correctAnswer)

-----------------------------------------------------------------------------
(* Question repository adapter                                             *)

\* Array.prototype.sort (stable) by an ascending key: the indices of keys in
\* sorted order; an index goes behind every index whose key is not greater.
RECURSIVE insertIndex(_, _, _)
insertIndex(sorted, i, keys) ==
  IF sorted = <<>> THEN <<i>>
  ELSE IF keys[Head(sorted)] <= keys[i]
       THEN <<Head(sorted)>> \o insertIndex(Tail(sorted), i, keys)
       ELSE <<i>> \o sorted

RECURSIVE sortedIndices(_, _)
sortedIndices(n, keys) ==
  IF n = 0 THEN <<>> ELSE insertIndex(sortedIndices(n - 1, keys), n, keys)

sortAscending(xs, keys) ==
  LET perm == sortedIndices(Len(xs), keys) IN [k \in 1..Len(xs) |-> xs[perm[k]]]

\* Array.prototype.filter: the elements whose flag is set, in order.
RECURSIVE keptIndices(_, _)
keptIndices(n, flags) ==
  IF n = 0 THEN <<>>
  ELSE keptIndices(n - 1, flags) \o (IF flags[n] THEN <<n>> ELSE <<>>)

filterSeq(xs, flags) ==
  LET idx == keptIndices(Len(xs), flags) IN [k \in 1..Len(idx) |-> xs[idx[k]]]

\* Array.prototype.find / Object.keys(...).find: the index of the first
\* element that satisfies the test, 0 when there is none; tests[i] is the
\* test's verdict on the i-th element.
findIndex(tests) ==
  IF \E i \in 1..Len(tests) : tests[i]
  THEN CHOOSE i \in 1..Len(tests) : tests[i] /\ \A j \in 1..(i - 1) : ~tests[j]
  ELSE 0

\* The record the adapter returns for a file question: type defaulted to
\* 'text' (the media fields, which no handler reads, are not carried).
defaultedQuestion(q) == [q EXCEPT !.type = IF q.type = Null THEN "text" ELSE q.type]

findQuestionsForCategory(categoryName, allCategories) ==
  LET match == findIndex([k \in 1..Len(allCategories) |->
                 toLowerCase(allCategories[k].name) = toLowerCase(categoryName)])
  IN IF match # 0
     THEN [k \in 1..Len(allCategories[match].questions) |->
             defaultedQuestion(allCategories[match].questions[k])]
     ELSE <<>>

getQuestionDifficulty(question) ==
  IF question.difficulty # 0 THEN question.difficulty
  ELSE LET type == typeOf(question)
       IN CASE type = "multiple-choice" -> 1
            [] type = "number" -> 2
            [] type = "music" -> 2
            [] type = "video" -> 2
            [] type = "image" -> 2
            [] type = "text" -> 3
            [] OTHER -> 2

-----------------------------------------------------------------------------
(* Inputs: the strings clients send and the content of questions.json      *)

Movies      == <<"M", "o">>
MoviesLower == <<" ", "m", "o">>
Music       == <<"M", "u">>
Blank       == <<" ">>

Film  == <<"f", "i", "l", "m">>
Fil   == <<"F", "i", "l">>
Wrong == <<"j", "j">>
OptB  == <<"b">>
N42   == <<"4", "2">>

Jo  == <<"J", "o">>
AB  == <<"A", "-", "B">>
Uma == <<"U", "m", "a">>
Bo  == <<"B", "o">>

Prompt == <<"q">>

\* questions.json: a text question and a multiple-choice question for
\* "mo", a number question with tolerance 2 for "Mu".
FileQuestion(id, type, answer, tolerance) ==
  [id |-> id, type |-> type, question |-> Prompt, answer |-> answer,
   tolerance |-> tolerance, difficulty |-> 0, acceptedAnswers |-> <<>>]

QuestionsFile ==
  << [name |-> <<"m", "o">>,
      questions |-> << FileQuestion(1, Null, Film, 0),
                       FileQuestion(2, "multiple-choice", OptB, 0) >>],
     [name |-> Music,
      questions |-> << FileQuestion(3, "number", N42, 2) >>] >>

\* loadQuestionsFromFile: parsed.categories, or [] when the file is missing
\* or does not parse.
FileContents == {QuestionsFile, <<>>}

\* Date.now() + Math.random(): the k-th generated id, distinct from the
\* file's ids and from every other generated id.
GeneratedIdBase == 100

VOTES_NEEDED_FOR_CATEGORY == 3

-----------------------------------------------------------------------------
(* Session state                                                           *)

VARIABLES
  phase,                 \* gameState.phase
  suggestedCategories,   \* entries [name, suggesters, questions], insertion order
  selectedCategories,    \* array of [name, questions, suggesters, shared]
  currentCategoryIndex,  \* 0-based, as in the source
  currentQuestionIndex,  \* 0-based, -1 = none
  showAnswer,
  players,               \* entries [name, answers, score, bets], insertion order
  skipVotes,
  quizStarted,
  correctPlayers,
  generatedIds,          \* how many question ids addQuestion has generated
  approvedSent,          \* categories announced by categoryApproved since the
                         \* last startCategoryVoting / resetQuiz
  revealed,              \* ids of the questions whose answer has been shown
                         \* since the quiz was started
  autoScored             \* players the auto-scoring has given or taken points
                         \* for the current question since it became active
                         \* and since they last submitted an answer

\* The gameState object as a value.
gameState ==
  [phase |-> phase, suggestedCategories |-> suggestedCategories,
   selectedCategories |-> selectedCategories,
   currentCategoryIndex |-> currentCategoryIndex,
   currentQuestionIndex |-> currentQuestionIndex, showAnswer |-> showAnswer,
   players |-> players, skipVotes |-> skipVotes, quizStarted |-> quizStarted,
   correctPlayers |-> correctPlayers]

vars ==
  <<phase, suggestedCategories, selectedCategories, currentCategoryIndex,
    currentQuestionIndex, showAnswer, players, skipVotes, quizStarted,
    correctPlayers, generatedIds, approvedSent, revealed, autoScored>>

\* In a selected category, shared tells that its questions array is the very
\* array object held by the suggested category of the same name (startQuiz
\* takes data.questions itself when it is not empty), so that a push or an
\* in-place sort through either reference shows through both.

\* socket.playerName is not a variable of the model.  A socket carries the
\* name of its last playerJoin, and a connection that joins under the name of
\* an existing player changes nothing in gameState; so in every state a socket
\* that carries a known player's name can exist and disconnect, and one that
\* carries no name ("") as well.  A socket that carries the name of a player
\* wiped by resetQuiz has no vote to withdraw.

\* The initial gameState object; resetQuiz assigns the same literal.
initialGameState ==
  [phase |-> "lobby", suggestedCategories |-> <<>>, selectedCategories |-> <<>>,
   currentCategoryIndex |-> 0, currentQuestionIndex |-> -1, showAnswer |-> FALSE,
   players |-> <<>>, skipVotes |-> {}, quizStarted |-> FALSE,
   correctPlayers |-> {}]

Init ==
  /\ phase = initialGameState.phase
  /\ suggestedCategories = initialGameState.suggestedCategories
  /\ selectedCategories = initialGameState.selectedCategories
  /\ currentCategoryIndex = initialGameState.currentCategoryIndex
  /\ currentQuestionIndex = initialGameState.currentQuestionIndex
  /\ showAnswer = initialGameState.showAnswer
  /\ players = initialGameState.players
  /\ skipVotes = initialGameState.skipVotes
  /\ quizStarted = initialGameState.quizStarted
  /\ correctPlayers = initialGameState.correctPlayers
  /\ generatedIds = 0
  /\ approvedSent = {}
  /\ revealed = {}
  /\ autoScored = {}

-----------------------------------------------------------------------------
(* Lookups                                                                 *)

\* gameState.players[playerName]: the entry's index, 0 when undefined.
playerIndex(playerName) == findIndex([k \in 1..Len(players) |-> players[k].name = playerName])

knownPlayer(playerName) == playerIndex(playerName) # 0

\* gameState.selectedCategories[gameState.currentCategoryIndex] is defined
hasCategory ==
  currentCategoryIndex >= 0 /\ currentCategoryIndex < Len(selectedCategories)

category == selectedCategories[currentCategoryIndex + 1]

\* category.questions[i] is defined (i 0-based)
hasQuestionAt(i) ==
  hasCategory /\ i >= 0 /\ i < Len(category.questions)

questionAt(i) == category.questions[i + 1]

\* player.answers[questionId], "" standing for undefined as well: both are
\* falsy, which is all the source reads of it.
answerOf(player, questionId) ==
  IF questionId \in DOMAIN player.answers THEN player.answers[questionId] ELSE <<>>

-----------------------------------------------------------------------------
(* Vote & quorum engine, status views                                      *)

\* Mutant of skipVoteStatusOf: the mandatory-question gate left out of shouldSkip.
skipVoteStatusNoGate(votes) ==
  LET totalPlayers       == Len(players)
      skipVoteCount      == Cardinality(votes)
      votesNeeded        == (totalPlayers \div 2) + 1
      categoryVotes      == IF hasCategory /\ Cardinality(category.suggesters) # 0
                            THEN Cardinality(category.suggesters) ELSE 3
      mandatoryQuestions == Min2(categoryVotes - 2, 5)
      questionsAnswered  == currentQuestionIndex + 1
      canSkipYet         == questionsAnswered >= mandatoryQuestions
  IN [skipVoteCount |-> skipVoteCount, totalPlayers |-> totalPlayers,
      votesNeeded |-> votesNeeded, mandatoryQuestions |-> mandatoryQuestions,
      questionsAnswered |-> questionsAnswered, canSkipYet |-> canSkipYet,
      shouldSkip |-> totalPlayers > 0 /\ skipVoteCount >= votesNeeded,
      voters |-> votes]

\* Mutant of skipVoteStatusOf: the mandatory questions are not capped at 5.
skipVoteStatusNoCap(votes) ==
  LET totalPlayers       == Len(players)
      skipVoteCount      == Cardinality(votes)
      votesNeeded        == (totalPlayers \div 2) + 1
      categoryVotes      == IF hasCategory /\ Cardinality(category.suggesters) # 0
                            THEN Cardinality(category.suggesters) ELSE 3
      mandatoryQuestions == categoryVotes - 2
      questionsAnswered  == currentQuestionIndex + 1
      canSkipYet         == questionsAnswered >= mandatoryQuestions
  IN [skipVoteCount |-> skipVoteCount, totalPlayers |-> totalPlayers,
      votesNeeded |-> votesNeeded, mandatoryQuestions |-> mandatoryQuestions,
      questionsAnswered |-> questionsAnswered, canSkipYet |-> canSkipYet,
      shouldSkip |-> totalPlayers > 0 /\ skipVoteCount >= votesNeeded /\ canSkipYet,
      voters |-> votes]

\* getSkipVoteStatus, over the skip votes given (the handler's own update
\* of gameState.skipVotes included).
skipVoteStatusOf(votes) ==
  LET totalPlayers       == Len(players)
      skipVoteCount      == Cardinality(votes)
      votesNeeded        == (totalPlayers \div 2) + 1
      categoryVotes      == IF hasCategory /\ Cardinality(category.suggesters) # 0
                            THEN Cardinality(category.suggesters) ELSE 3
      mandatoryQuestions == Min2(categoryVotes - 2, 5)
      questionsAnswered  == currentQuestionIndex + 1
      canSkipYet         == questionsAnswered >= mandatoryQuestions
  IN [skipVoteCount |-> skipVoteCount, totalPlayers |-> totalPlayers,
      votesNeeded |-> votesNeeded, mandatoryQuestions |-> mandatoryQuestions,
      questionsAnswered |-> questionsAnswered, canSkipYet |-> canSkipYet,
      shouldSkip |-> totalPlayers > 0 /\ skipVoteCount >= votesNeeded /\ canSkipYet,
      voters |-> votes]

getSkipVoteStatus == skipVoteStatusOf(skipVotes)

\* checkCategoryThreshold over the suggested categories given: the names it
\* emits categoryApproved for.
checkCategoryThreshold(suggested) ==
  {suggested[k].name : k \in {j \in 1..Len(suggested) :
      Cardinality(suggested[j].suggesters) = VOTES_NEEDED_FOR_CATEGORY}}

\* Mutant of skipToNextCategory: the advance keeps the skip votes.
skipToNextCategoryKeepsVotes(votes) ==
  IF currentCategoryIndex < Len(selectedCategories) - 1
  THEN [phase |-> phase, currentCategoryIndex |-> currentCategoryIndex + 1,
        currentQuestionIndex |-> 0, showAnswer |-> FALSE, skipVotes |-> votes]
  ELSE [phase |-> "finished", currentCategoryIndex |-> currentCategoryIndex,
        currentQuestionIndex |-> -1, showAnswer |-> showAnswer, skipVotes |-> votes]

\* What skipToNextCategory assigns, given the skip votes at the call.
skipToNextCategory(votes) ==
  IF currentCategoryIndex < Len(selectedCategories) - 1
  THEN [phase |-> phase, currentCategoryIndex |-> currentCategoryIndex + 1,
        currentQuestionIndex |-> 0, showAnswer |-> FALSE, skipVotes |-> {}]
  ELSE [phase |-> "finished", currentCategoryIndex |-> currentCategoryIndex,
        currentQuestionIndex |-> -1, showAnswer |-> showAnswer, skipVotes |-> votes]

\* gs with the assignments of a navigation step r (a record as above).
navigated(gs, r) ==
  [gs EXCEPT !.phase = r.phase,
             !.currentCategoryIndex = r.currentCategoryIndex,
             !.currentQuestionIndex = r.currentQuestionIndex,
             !.showAnswer = r.showAnswer,
             !.skipVotes = r.skipVotes]

-----------------------------------------------------------------------------
(* Handlers.  Each is the handler's whole effect as a value: the gameState *)
(* it leaves (state) and the notification events it emits besides the      *)
(* broadcasts of the derived views (emitted).                              *)

Done(gs, events) == [state |-> gs, emitted |-> events]

newPlayer(playerName) == [name |-> playerName, answers |-> <<>>, score |-> 0, bets |-> {}]

\* Mutant of playerJoin: the entry is written whether or not it exists.
playerJoinOverwrites(rawName) ==
  LET playerName == capitalizeName(rawName)
      i == playerIndex(playerName)
  IN Done(IF i # 0 THEN [gameState EXCEPT !.players[i] = newPlayer(playerName)]
          ELSE [gameState EXCEPT !.players = Append(@, newPlayer(playerName))],
          {<<"nameUpdated", playerName>>})

playerJoin(rawName) ==
  LET playerName == capitalizeName(rawName)
  IN Done(IF knownPlayer(playerName) THEN gameState
          ELSE [gameState EXCEPT !.players = Append(@, newPlayer(playerName))],
          {<<"nameUpdated", playerName>>})

\* Mutant of suggestCategory: a repeated suggestion replaces the suggesters.
suggestCategoryReplaces(playerName, categoryName) ==
  IF phase # "category-voting" THEN Done(gameState, {})
  ELSE IF Len(trim(categoryName)) = 0 THEN Done(gameState, {})
  ELSE
    LET normalizedName == trim(categoryName)
        existingKey == findIndex([k \in 1..Len(suggestedCategories) |->
                         toLowerCase(suggestedCategories[k].name) = toLowerCase(normalizedName)])
        suggested ==
          IF existingKey # 0
          THEN [suggestedCategories EXCEPT ![existingKey].suggesters = {playerName}]
          ELSE Append(suggestedCategories,
                      [name |-> normalizedName, suggesters |-> {playerName},
                       questions |-> <<>>])
    IN Done([gameState EXCEPT !.suggestedCategories = suggested],
            {<<"categoryApproved", n>> : n \in checkCategoryThreshold(suggested)})

\* Mutant of suggestCategory: the phase test left out.
suggestCategoryAnyPhase(playerName, categoryName) ==
  IF Len(trim(categoryName)) = 0 THEN Done(gameState, {})
  ELSE
    LET normalizedName == trim(categoryName)
        existingKey == findIndex([k \in 1..Len(suggestedCategories) |->
                         toLowerCase(suggestedCategories[k].name) = toLowerCase(normalizedName)])
        suggested ==
          IF existingKey # 0
          THEN [suggestedCategories EXCEPT ![existingKey].suggesters = @ \cup {playerName}]
          ELSE Append(suggestedCategories,
                      [name |-> normalizedName, suggesters |-> {playerName},
                       questions |-> <<>>])
    IN Done([gameState EXCEPT !.suggestedCategories = suggested],
            {<<"categoryApproved", n>> : n \in checkCategoryThreshold(suggested)})

suggestCategory(playerName, categoryName) ==
  IF phase # "category-voting" THEN Done(gameState, {})
  ELSE IF Len(trim(categoryName)) = 0 THEN Done(gameState, {})
  ELSE
    LET normalizedName == trim(categoryName)
        existingKey == findIndex([k \in 1..Len(suggestedCategories) |->
                         toLowerCase(suggestedCategories[k].name) = toLowerCase(normalizedName)])
        suggested ==
          IF existingKey # 0
          THEN [suggestedCategories EXCEPT ![existingKey].suggesters = @ \cup {playerName}]
          ELSE Append(suggestedCategories,
                      [name |-> normalizedName, suggesters |-> {playerName},
                       questions |-> <<>>])
    IN Done([gameState EXCEPT !.suggestedCategories = suggested],
            {<<"categoryApproved", n>> : n \in checkCategoryThreshold(suggested)})

\* Where addQuestion finds the category: 0 = nowhere.
selectedIndexOf(categoryName) ==
  findIndex([k \in 1..Len(selectedCategories) |-> selectedCategories[k].name = categoryName])

suggestedIndexOf(categoryName) ==
  findIndex([k \in 1..Len(suggestedCategories) |-> suggestedCategories[k].name = categoryName])

addQuestion(categoryName, question, answer) ==
  LET sel == selectedIndexOf(categoryName)
      sug == suggestedIndexOf(categoryName)
      added == [id |-> GeneratedIdBase + generatedIds, type |-> Null,
                question |-> question, answer |-> answer, tolerance |-> 0,
                difficulty |-> 0, acceptedAnswers |-> <<>>]
  IN IF sel # 0
     THEN Done([gameState EXCEPT
                  !.selectedCategories[sel].questions = Append(@, added),
                  !.suggestedCategories =
                     IF selectedCategories[sel].shared
                     THEN [@ EXCEPT ![sug].questions = Append(@, added)]
                     ELSE @], {})
     ELSE IF sug # 0
     THEN Done([gameState EXCEPT !.suggestedCategories[sug].questions = Append(@, added)], {})
     ELSE Done(gameState, {})

startCategoryVoting ==
  Done([gameState EXCEPT !.phase = "category-voting",
                         !.suggestedCategories = <<>>,
                         !.selectedCategories = <<>>], {})

\* category.questions.sort((a, b) => difficulty(a) - difficulty(b))
sortQuestions(questions) ==
  sortAscending(questions,
                [k \in 1..Len(questions) |-> getQuestionDifficulty(questions[k])])

\* The categories with 3+ suggesters, each with its questions resolved:
\* its own when it has any, else those of the file.
qualifiedCategories(fileCategories) ==
  LET entry(k) ==
        LET data == suggestedCategories[k]
        IN [name |-> data.name,
            questions |-> IF Len(data.questions) = 0
                          THEN findQuestionsForCategory(data.name, fileCategories)
                          ELSE data.questions,
            suggesters |-> data.suggesters,
            shared |-> Len(data.questions) # 0]
  IN filterSeq([k \in 1..Len(suggestedCategories) |-> entry(k)],
               [k \in 1..Len(suggestedCategories) |->
                  Cardinality(suggestedCategories[k].suggesters)
                    >= VOTES_NEEDED_FOR_CATEGORY])

categoriesWithQuestions(fileCategories) ==
  LET qualified == qualifiedCategories(fileCategories)
  IN filterSeq(qualified, [k \in 1..Len(qualified) |-> Len(qualified[k].questions) > 0])

\* Mutant of sortCategories: the comparator reversed (a - b).
sortCategoriesAscending(categories) ==
  sortAscending(categories,
                [k \in 1..Len(categories) |-> Cardinality(categories[k].suggesters)])

\* sort((a, b) => b.suggesters.length - a.suggesters.length)
sortCategories(categories) ==
  sortAscending(categories,
                [k \in 1..Len(categories) |-> 0 - Cardinality(categories[k].suggesters)])

\* Mutant of startQuiz: the check for categories with questions left out.
startQuizUnchecked(fileCategories) ==
  IF Len(qualifiedCategories(fileCategories)) = 0
  THEN Done(gameState, {<<"error", "Geen categorieen met 3+ stemmen!">>})
  ELSE
    LET sorted == sortCategories(categoriesWithQuestions(fileCategories))
        selected == [k \in 1..Len(sorted) |->
                       [sorted[k] EXCEPT !.questions = sortQuestions(@)]]
    IN Done([gameState EXCEPT !.selectedCategories = selected,
                              !.phase = "playing",
                              !.quizStarted = TRUE,
                              !.currentCategoryIndex = 0,
                              !.currentQuestionIndex = 0,
                              !.showAnswer = FALSE,
                              !.skipVotes = {}], {})

startQuiz(fileCategories) ==
  IF Len(qualifiedCategories(fileCategories)) = 0
  THEN Done(gameState, {<<"error", "Geen categorieen met 3+ stemmen!">>})
  ELSE IF Len(categoriesWithQuestions(fileCategories)) = 0
  THEN Done(gameState, {<<"error", "Geen categorieen met vragen!">>})
  ELSE
    LET sorted == sortCategories(categoriesWithQuestions(fileCategories))
        selected == [k \in 1..Len(sorted) |->
                       [sorted[k] EXCEPT !.questions = sortQuestions(@)]]
        \* the in-place sort shows through the shared arrays
        suggested == [k \in 1..Len(suggestedCategories) |->
                        IF /\ Cardinality(suggestedCategories[k].suggesters)
                                >= VOTES_NEEDED_FOR_CATEGORY
                           /\ Len(suggestedCategories[k].questions) # 0
                        THEN [suggestedCategories[k] EXCEPT !.questions = sortQuestions(@)]
                        ELSE suggestedCategories[k]]
    IN Done([gameState EXCEPT !.suggestedCategories = suggested,
                              !.selectedCategories = selected,
                              !.phase = "playing",
                              !.quizStarted = TRUE,
                              !.currentCategoryIndex = 0,
                              !.currentQuestionIndex = 0,
                              !.showAnswer = FALSE,
                              !.skipVotes = {}], {})

submitAnswer(playerName, questionId, answer) ==
  LET i == playerIndex(playerName)
  IN IF i # 0
     THEN Done([gameState EXCEPT !.players[i].answers =
                  [q \in (DOMAIN @) \cup {questionId} |->
                     IF q = questionId THEN answer ELSE @[q]]],
               {<<"answerSubmitted", playerName, questionId>>})
     ELSE Done(gameState, {})

\* Mutant of placeBet: the bet goes on the question being played.
placeBetOnCurrent(playerName) ==
  LET i == playerIndex(playerName)
  IN IF i # 0 /\ hasQuestionAt(currentQuestionIndex)
     THEN Done([gameState EXCEPT !.players[i].bets =
                  @ \cup {questionAt(currentQuestionIndex).id}],
               {<<"betPlaced", questionAt(currentQuestionIndex).id>>})
     ELSE Done(gameState, {})

placeBet(playerName) ==
  LET i == playerIndex(playerName)
      nextQuestionIndex == currentQuestionIndex + 1
  IN IF i # 0 /\ currentQuestionIndex >= 0 /\ hasQuestionAt(nextQuestionIndex)
     THEN Done([gameState EXCEPT !.players[i].bets =
                  @ \cup {questionAt(nextQuestionIndex).id}],
               {<<"betPlaced", questionAt(nextQuestionIndex).id>>})
     ELSE Done(gameState, {})

voteSkipCategory(playerName) ==
  IF knownPlayer(playerName) /\ phase = "playing"
  THEN LET votes == skipVotes \cup {playerName}
           skipStatus == skipVoteStatusOf(votes)
       IN IF skipStatus.shouldSkip
          THEN Done(navigated(gameState, skipToNextCategory(votes)), {})
          ELSE Done([gameState EXCEPT !.skipVotes = votes], {})
  ELSE Done(gameState, {})

removeSkipVote(playerName) ==
  IF knownPlayer(playerName)
  THEN Done([gameState EXCEPT !.skipVotes = @ \ {playerName}], {})
  ELSE Done(gameState, {})

\* Mutant of nextQuestion: nothing happens past the last question.
nextQuestionStays ==
  IF ~hasCategory THEN Done(gameState, {})
  ELSE IF currentQuestionIndex < Len(category.questions) - 1
  THEN Done([gameState EXCEPT !.currentQuestionIndex = @ + 1,
                              !.showAnswer = FALSE], {})
  ELSE Done(gameState, {})

\* Mutant of nextQuestion: the bound test off by one (< length instead of
\* < length - 1).
nextQuestionOffByOne ==
  IF ~hasCategory THEN Done(gameState, {})
  ELSE IF currentQuestionIndex < Len(category.questions)
  THEN Done([gameState EXCEPT !.currentQuestionIndex = @ + 1,
                              !.showAnswer = FALSE], {})
  ELSE Done(navigated(gameState, skipToNextCategory(skipVotes)), {})

nextQuestion ==
  IF ~hasCategory THEN Done(gameState, {})
  ELSE IF currentQuestionIndex < Len(category.questions) - 1
  THEN Done([gameState EXCEPT !.currentQuestionIndex = @ + 1,
                              !.showAnswer = FALSE], {})
  ELSE Done(navigated(gameState, skipToNextCategory(skipVotes)), {})

prevQuestion ==
  IF currentQuestionIndex > 0
  THEN Done([gameState EXCEPT !.currentQuestionIndex = @ - 1,
                              !.showAnswer = FALSE], {})
  ELSE Done(gameState, {})

nextCategory == Done(navigated(gameState, skipToNextCategory(skipVotes)), {})

-----------------------------------------------------------------------------
(* Scoring engine                                                          *)

\* Mutant of autoScore: a correct answer earns 1 point, bet or no bet.
autoScoreNoDouble(isCorrect, hasBet) ==
  IF isCorrect THEN 1
  ELSE IF hasBet THEN -1 ELSE 0

\* What the auto-scoring adds to the score of a player who answered.
autoScore(isCorrect, hasBet) ==
  IF isCorrect THEN (IF hasBet THEN 2 ELSE 1)
  ELSE IF hasBet THEN -1 ELSE 0

\* One iteration of the forEach over the players, for the question revealed.
scoredPlayer(player, question) ==
  LET playerAnswer == answerOf(player, question.id)
  IN IF Len(playerAnswer) = 0 THEN player
     ELSE [player EXCEPT !.score =
             @ + autoScore(checkAnswer(playerAnswer, question),
                           question.id \in player.bets)]

\* The names the forEach adds to gameState.correctPlayers.
correctNames(question) ==
  {players[i].name : i \in {j \in 1..Len(players) :
      /\ Len(answerOf(players[j], question.id)) # 0
      /\ checkAnswer(answerOf(players[j], question.id), question)}}

\* Mutant of toggleAnswer: hiding the answer keeps the correct-player set.
toggleAnswerKeepsCorrect ==
  LET wasHidden == ~showAnswer
  IN IF ~wasHidden
     THEN Done([gameState EXCEPT !.showAnswer = FALSE], {})
     ELSE IF hasQuestionAt(currentQuestionIndex)
     THEN LET question == questionAt(currentQuestionIndex)
          IN Done([gameState EXCEPT
                     !.showAnswer = TRUE,
                     !.players = [i \in 1..Len(players) |->
                                    scoredPlayer(players[i], question)],
                     !.correctPlayers = correctNames(question)], {})
     ELSE Done([gameState EXCEPT !.showAnswer = TRUE, !.correctPlayers = {}], {})

toggleAnswer ==
  LET wasHidden == ~showAnswer
  IN IF ~wasHidden
     THEN Done([gameState EXCEPT !.showAnswer = FALSE, !.correctPlayers = {}], {})
     ELSE IF hasQuestionAt(currentQuestionIndex)
     THEN LET question == questionAt(currentQuestionIndex)
          IN Done([gameState EXCEPT
                     !.showAnswer = TRUE,
                     !.players = [i \in 1..Len(players) |->
                                    scoredPlayer(players[i], question)],
                     !.correctPlayers = correctNames(question)], {})
     ELSE Done([gameState EXCEPT !.showAnswer = TRUE, !.correctPlayers = {}], {})

updateScore(playerName, score) ==
  LET i == playerIndex(playerName)
  IN IF i # 0 THEN Done([gameState EXCEPT !.players[i].score = score], {})
     ELSE Done(gameState, {})

awardPoints(playerName, points, questionId) ==
  LET i == playerIndex(playerName)
  IN IF i # 0
     THEN LET hasBet == questionId \in players[i].bets
              actualPoints == IF hasBet THEN points * 2 ELSE points
          IN Done([gameState EXCEPT !.players[i].score = @ + actualPoints], {})
     ELSE Done(gameState, {})

deductBetPoints(playerName, points, questionId) ==
  LET i == playerIndex(playerName)
  IN IF i # 0 /\ questionId \in players[i].bets
     THEN Done([gameState EXCEPT !.players[i].score = @ - points], {})
     ELSE Done(gameState, {})

\* Mutant of resetQuiz: the roster survives the reset.
resetQuizKeepsPlayers == Done([initialGameState EXCEPT !.players = players], {})

resetQuiz == Done(initialGameState, {})

\* refreshQuestions only re-broadcasts the views.
refreshQuestions == Done(gameState, {})

\* disconnect of a socket whose playerName is name ("", falsy like undefined:
\* never joined).
disconnect(name) ==
  IF Len(name) # 0 THEN Done([gameState EXCEPT !.skipVotes = @ \ {name}], {})
  ELSE Done(gameState, {})

-----------------------------------------------------------------------------
(* Broadcast projector                                                     *)

\* Mutant of getPublicGameState: the answer is sent whatever the reveal flag.
getPublicGameStateExposes ==
  LET question == IF hasQuestionAt(currentQuestionIndex)
                  THEN questionAt(currentQuestionIndex) ELSE Null
  IN [phase |-> phase,
      currentCategoryIndex |-> currentCategoryIndex,
      currentCategory |-> IF hasCategory
                          THEN <<[name |-> category.name,
                                  questionCount |-> Len(category.questions),
                                  suggesters |-> category.suggesters]>>
                          ELSE <<>>,
      currentQuestionIndex |-> currentQuestionIndex,
      currentQuestion |-> IF hasQuestionAt(currentQuestionIndex)
                          THEN <<[id |-> question.id,
                                  type |-> typeOf(question),
                                  question |-> question.question,
                                  tolerance |-> question.tolerance,
                                  answer |-> <<question.answer>>]>>
                          ELSE <<>>,
      showAnswer |-> showAnswer,
      totalCategories |-> Len(selectedCategories),
      quizStarted |-> quizStarted,
      isFinished |-> phase = "finished",
      votesNeededForCategory |-> VOTES_NEEDED_FOR_CATEGORY,
      approvedCategoryCount |->
        Cardinality({k \in 1..Len(suggestedCategories) :
          Cardinality(suggestedCategories[k].suggesters) >= VOTES_NEEDED_FOR_CATEGORY})]

getPublicGameState ==
  LET question == IF hasQuestionAt(currentQuestionIndex)
                  THEN questionAt(currentQuestionIndex) ELSE Null
  IN [phase |-> phase,
      currentCategoryIndex |-> currentCategoryIndex,
      currentCategory |-> IF hasCategory
                          THEN <<[name |-> category.name,
                                  questionCount |-> Len(category.questions),
                                  suggesters |-> category.suggesters]>>
                          ELSE <<>>,
      currentQuestionIndex |-> currentQuestionIndex,
      currentQuestion |-> IF hasQuestionAt(currentQuestionIndex)
                          THEN <<[id |-> question.id,
                                  type |-> typeOf(question),
                                  question |-> question.question,
                                  tolerance |-> question.tolerance,
                                  answer |-> IF showAnswer THEN <<question.answer>>
                                             ELSE <<>>]>>
                          ELSE <<>>,
      showAnswer |-> showAnswer,
      totalCategories |-> Len(selectedCategories),
      quizStarted |-> quizStarted,
      isFinished |-> phase = "finished",
      votesNeededForCategory |-> VOTES_NEEDED_FOR_CATEGORY,
      approvedCategoryCount |->
        Cardinality({k \in 1..Len(suggestedCategories) :
          Cardinality(suggestedCategories[k].suggesters) >= VOTES_NEEDED_FOR_CATEGORY})]

getPlayersWithScores ==
  LET rows == [i \in 1..Len(players) |->
        [name |-> players[i].name,
         score |-> players[i].score,
         answeredCount |-> Cardinality(DOMAIN players[i].answers),
         currentAnswer |-> IF hasQuestionAt(currentQuestionIndex)
                           THEN answerOf(players[i], questionAt(currentQuestionIndex).id)
                           ELSE <<>>,
         hasBetOnCurrent |-> /\ hasQuestionAt(currentQuestionIndex)
                             /\ questionAt(currentQuestionIndex).id \in players[i].bets,
         hasVotedSkip |-> players[i].name \in skipVotes,
         wasCorrect |-> players[i].name \in correctPlayers /\ showAnswer]]
  IN sortAscending(rows, [i \in 1..Len(rows) |-> 0 - rows[i].score])

getCategoryVotesPublic(fileCategories) ==
  LET rows == [k \in 1..Len(suggestedCategories) |->
        LET data == suggestedCategories[k]
        IN [name |-> data.name,
            suggesterCount |-> Cardinality(data.suggesters),
            suggesters |-> data.suggesters,
            isApproved |-> Cardinality(data.suggesters) >= VOTES_NEEDED_FOR_CATEGORY,
            questionCount |-> IF Len(data.questions) = 0
                              THEN Len(findQuestionsForCategory(data.name, fileCategories))
                              ELSE Len(data.questions)]]
  IN sortAscending(rows, [k \in 1..Len(rows) |-> 0 - rows[k].suggesterCount])

-----------------------------------------------------------------------------
(* Bounds and input sets                                                   *)

MaxGenerated  == 1   \* questions added through addQuestion
MaxScore      == 2   \* scores are kept within -MaxScore..MaxScore

\* What joining clients type; capitalizeName makes them Jo and AB.
RawJo == <<"j", "O">>
RawAB == <<"a", "-", "b">>

Scores == (0 - MaxScore)..MaxScore

scoresInRange(gs) == \A i \in 1..Len(gs.players) : gs.players[i].score \in Scores

-----------------------------------------------------------------------------
(* Actions: one per socket handler                                         *)

Apply(r) ==
  /\ phase' = r.state.phase
  /\ suggestedCategories' = r.state.suggestedCategories
  /\ selectedCategories' = r.state.selectedCategories
  /\ currentCategoryIndex' = r.state.currentCategoryIndex
  /\ currentQuestionIndex' = r.state.currentQuestionIndex
  /\ showAnswer' = r.state.showAnswer
  /\ players' = r.state.players
  /\ skipVotes' = r.state.skipVotes
  /\ quizStarted' = r.state.quizStarted
  /\ correctPlayers' = r.state.correctPlayers

\* The handler's effect r takes the quiz away from the question it was on.
leftQuestion(r) ==
  \/ r.state.phase # phase
  \/ r.state.currentCategoryIndex # currentCategoryIndex
  \/ r.state.currentQuestionIndex # currentQuestionIndex

\* What a handler other than toggleAnswer and submitAnswer does to the
\* record of the answers shown and of the players scored: a quiz that is
\* started (or wiped) forgets both, a move to another question forgets the
\* players scored.
Track(r, started) ==
  /\ revealed' = IF started THEN {} ELSE revealed
  /\ autoScored' = IF started \/ leftQuestion(r) THEN {} ELSE autoScored

\* The categories a handler's events announce as approved.
approvedBy(r) == {e[2] : e \in {x \in r.emitted : x[1] = "categoryApproved"}}

PlayerJoin(rawName) ==
  /\ Apply(playerJoin(rawName))
  /\ UNCHANGED <<generatedIds, approvedSent>>
  /\ Track(playerJoin(rawName), FALSE)

SuggestCategory(playerName, categoryName) ==
  /\ Apply(suggestCategory(playerName, categoryName))
  /\ approvedSent' = approvedSent \cup approvedBy(suggestCategory(playerName, categoryName))
  /\ UNCHANGED generatedIds
  /\ Track(suggestCategory(playerName, categoryName), FALSE)

AddQuestion(categoryName, question, answer) ==
  /\ generatedIds < MaxGenerated
  /\ Apply(addQuestion(categoryName, question, answer))
  /\ generatedIds' = IF selectedIndexOf(categoryName) # 0 \/ suggestedIndexOf(categoryName) # 0
                     THEN generatedIds + 1 ELSE generatedIds
  /\ UNCHANGED approvedSent
  /\ Track(addQuestion(categoryName, question, answer), FALSE)

StartCategoryVoting ==
  /\ Apply(startCategoryVoting)
  /\ approvedSent' = {}
  /\ UNCHANGED generatedIds
  /\ Track(startCategoryVoting, TRUE)

StartQuiz(fileCategories) ==
  /\ Apply(startQuiz(fileCategories))
  /\ UNCHANGED <<generatedIds, approvedSent>>
  /\ Track(startQuiz(fileCategories), startQuiz(fileCategories).emitted = {})

SubmitAnswer(playerName, questionId, answer) ==
  /\ Apply(submitAnswer(playerName, questionId, answer))
  /\ UNCHANGED <<generatedIds, approvedSent>>
  /\ autoScored' = IF submitAnswer(playerName, questionId, answer).state # gameState
                   THEN autoScored \ {playerName} ELSE autoScored
  /\ UNCHANGED revealed

PlaceBet(playerName) ==
  /\ Apply(placeBet(playerName))
  /\ UNCHANGED <<generatedIds, approvedSent>>
  /\ Track(placeBet(playerName), FALSE)

VoteSkipCategory(playerName) ==
  /\ Apply(voteSkipCategory(playerName))
  /\ UNCHANGED <<generatedIds, approvedSent>>
  /\ Track(voteSkipCategory(playerName), FALSE)

RemoveSkipVote(playerName) ==
  /\ Apply(removeSkipVote(playerName))
  /\ UNCHANGED <<generatedIds, approvedSent>>
  /\ Track(removeSkipVote(playerName), FALSE)

NextQuestion ==
  /\ Apply(nextQuestion)
  /\ UNCHANGED <<generatedIds, approvedSent>>
  /\ Track(nextQuestion, FALSE)

PrevQuestion ==
  /\ Apply(prevQuestion)
  /\ UNCHANGED <<generatedIds, approvedSent>>
  /\ Track(prevQuestion, FALSE)

NextCategory ==
  /\ Apply(nextCategory)
  /\ UNCHANGED <<generatedIds, approvedSent>>
  /\ Track(nextCategory, FALSE)

ToggleAnswer ==
  /\ scoresInRange(toggleAnswer.state)
  /\ Apply(toggleAnswer)
  /\ UNCHANGED <<generatedIds, approvedSent>>
  /\ revealed' = IF ~showAnswer /\ hasQuestionAt(currentQuestionIndex)
                 THEN revealed \cup {questionAt(currentQuestionIndex).id} ELSE revealed
  /\ autoScored' = autoScored \cup
       {players[i].name : i \in {j \in 1..Len(players) :
          toggleAnswer.state.players[j].score # players[j].score}}

UpdateScore(playerName, score) ==
  /\ Apply(updateScore(playerName, score))
  /\ UNCHANGED <<generatedIds, approvedSent>>
  /\ Track(updateScore(playerName, score), FALSE)

AwardPoints(playerName, points, questionId) ==
  /\ scoresInRange(awardPoints(playerName, points, questionId).state)
  /\ Apply(awardPoints(playerName, points, questionId))
  /\ UNCHANGED <<generatedIds, approvedSent>>
  /\ Track(awardPoints(playerName, points, questionId), FALSE)

DeductBetPoints(playerName, points, questionId) ==
  /\ scoresInRange(deductBetPoints(playerName, points, questionId).state)
  /\ Apply(deductBetPoints(playerName, points, questionId))
  /\ UNCHANGED <<generatedIds, approvedSent>>
  /\ Track(deductBetPoints(playerName, points, questionId), FALSE)

ResetQuiz ==
  /\ Apply(resetQuiz)
  /\ approvedSent' = {}
  /\ UNCHANGED generatedIds
  /\ Track(resetQuiz, TRUE)

RefreshQuestions ==
  /\ Apply(refreshQuestions)
  /\ UNCHANGED <<generatedIds, approvedSent>>
  /\ Track(refreshQuestions, FALSE)

\* The disconnect of a socket whose playerName is name.
Disconnect(name) ==
  /\ Len(name) = 0 \/ knownPlayer(name)
  /\ Apply(disconnect(name))
  /\ UNCHANGED <<generatedIds, approvedSent>>
  /\ Track(disconnect(name), FALSE)

\* The next-state relation over the inputs given: the payloads the clients
\* send and the contents questions.json may have when it is read.
NextOver(in) ==
  \/ \E rawName \in in.rawNames : PlayerJoin(rawName)
  \/ \E s \in in.suggestions : SuggestCategory(s[1], s[2])
  \/ \E c \in in.addTo : AddQuestion(c, Prompt, Film)
  \/ StartCategoryVoting
  \/ \E f \in in.files : StartQuiz(f)
  \/ \E a \in in.answers : SubmitAnswer(a[1], a[2], a[3])
  \/ \E p \in in.bettors : PlaceBet(p)
  \/ \E p \in in.voters : VoteSkipCategory(p)
  \/ \E p \in in.voters : RemoveSkipVote(p)
  \/ NextQuestion
  \/ PrevQuestion
  \/ NextCategory
  \/ ToggleAnswer
  \/ \E e \in in.scoreEdits : UpdateScore(e[1], e[2])
  \/ \E e \in in.awards : AwardPoints(e[1], e[2], e[3])
  \/ \E e \in in.awards : DeductBetPoints(e[1], e[2], e[3])
  \/ ResetQuiz
  \/ RefreshQuestions
  \/ \E rawName \in in.rawNames \cup {<<>>} : Disconnect(capitalizeName(rawName))

\* Navigation and phases: two categories can qualify, one player.
NavInputs ==
  [rawNames    |-> {RawJo},
   suggestions |-> {Jo, AB, Uma} \X {Movies, Music},
   addTo       |-> {Music},
   files       |-> FileContents,
   answers     |-> {<<Jo, 2, <<>>>>},
   bettors     |-> {Uma},
   voters      |-> {Jo},
   scoreEdits  |-> {<<Jo, 0>>},
   awards      |-> {<<Uma, 1, 2>>}]

Next == NextOver(NavInputs)

Spec == Init /\ [][Next]_vars

\* Category voting in full.
VotingInputs ==
  [rawNames    |-> {RawJo},
   suggestions |-> ({Jo, AB, Uma, Bo} \X {Movies}) \cup ({Jo, AB, Uma} \X {Music})
                     \cup ({Jo} \X {MoviesLower, Blank, <<>>}),
   addTo       |-> {Music},
   files       |-> FileContents,
   answers     |-> {<<Uma, 2, OptB>>},
   bettors     |-> {Uma},
   voters      |-> {Uma},
   scoreEdits  |-> {<<Uma, 0>>},
   awards      |-> {<<Uma, 1, 2>>}]

NextVoting == NextOver(VotingInputs)

SpecVoting == Init /\ [][NextVoting]_vars

ScoringInputs ==
  [rawNames    |-> {RawJo, Jo},
   suggestions |-> {Jo, AB, Uma} \X {Movies},
   addTo       |-> {Blank},
   files       |-> FileContents,
   answers     |-> ({Jo} \X {1} \X {Film, Fil, Wrong, <<>>}) \cup {<<Jo, 2, OptB>>, <<Uma, 1, Film>>},
   bettors     |-> {Jo, Uma},
   voters      |-> {Jo},
   scoreEdits  |-> {<<Jo, 0>>},
   awards      |-> {<<Jo, 1, 1>>, <<Jo, 1, 2>>}]

NextScoring == NextOver(ScoringInputs)

SpecScoring == Init /\ [][NextScoring]_vars

SkipInputs ==
  [rawNames    |-> {RawJo, RawAB},
   suggestions |-> ({Jo, AB, Uma, Bo} \X {Movies}) \cup ({Jo, AB, Uma} \X {Music}),
   addTo       |-> {Blank},
   files       |-> {QuestionsFile},
   answers     |-> {<<Uma, 2, OptB>>},
   bettors     |-> {Uma},
   voters      |-> {Jo, AB, Uma},
   scoreEdits  |-> {<<Uma, 0>>},
   awards      |-> {<<Uma, 1, 2>>}]

NextSkip == NextOver(SkipInputs)

SpecSkip == Init /\ [][NextSkip]_vars

\* Up to eight suggesters for one category, so that the cap of five
\* mandatory questions is passed.
Cy  == <<"C", "y">>
Di  == <<"D", "i">>
Eli == <<"E", "l", "i">>
Gus == <<"G", "u", "s">>

GateInputs ==
  [rawNames    |-> {RawJo},
   suggestions |-> {Jo, AB, Uma, Bo, Cy, Di, Eli, Gus} \X {Movies},
   addTo       |-> {Blank},
   files       |-> {QuestionsFile},
   answers     |-> {<<Uma, 1, Film>>},
   bettors     |-> {Uma},
   voters      |-> {Jo},
   scoreEdits  |-> {<<Uma, 0>>},
   awards      |-> {<<Uma, 1, 1>>}]

NextGate == NextOver(GateInputs)

SpecGate == Init /\ [][NextGate]_vars

\* The quiz left to run: while phase is 'playing' no client sends
\* addQuestion, prevQuestion, startQuiz, startCategoryVoting or resetQuiz,
\* the other handlers run as ever, and nextQuestion keeps being sent.
NextDrain ==
  \/ \E rawName \in NavInputs.rawNames : PlayerJoin(rawName)
  \/ \E s \in NavInputs.suggestions : SuggestCategory(s[1], s[2])
  \/ phase # "playing" /\ \E c \in NavInputs.addTo : AddQuestion(c, Prompt, Film)
  \/ phase # "playing" /\ StartCategoryVoting
  \/ phase # "playing" /\ \E f \in NavInputs.files : StartQuiz(f)
  \/ \E a \in NavInputs.answers : SubmitAnswer(a[1], a[2], a[3])
  \/ \E p \in NavInputs.bettors : PlaceBet(p)
  \/ \E p \in NavInputs.voters : VoteSkipCategory(p)
  \/ \E p \in NavInputs.voters : RemoveSkipVote(p)
  \/ NextQuestion
  \/ phase # "playing" /\ PrevQuestion
  \/ NextCategory
  \/ ToggleAnswer
  \/ \E e \in NavInputs.scoreEdits : UpdateScore(e[1], e[2])
  \/ \E e \in NavInputs.awards : AwardPoints(e[1], e[2], e[3])
  \/ \E e \in NavInputs.awards : DeductBetPoints(e[1], e[2], e[3])
  \/ phase # "playing" /\ ResetQuiz
  \/ RefreshQuestions
  \/ \E rawName \in NavInputs.rawNames \cup {<<>>} : Disconnect(capitalizeName(rawName))

SpecDrain == Init /\ [][NextDrain]_vars /\ WF_vars(NextQuestion)

-----------------------------------------------------------------------------
(* Properties                                                              *)

\* C1.  In every reachable state, if phase is 'playing' then
\* currentCategoryIndex is a valid index into selectedCategories and
\* currentQuestionIndex is -1 or a valid index into the questions of that
\* category.
C1_IndicesValid ==
  phase = "playing" =>
    /\ currentCategoryIndex \in 0..(Len(selectedCategories) - 1)
    /\ \/ currentQuestionIndex = -1
       \/ currentQuestionIndex \in
            0..(Len(selectedCategories[currentCategoryIndex + 1].questions) - 1)

\* The quiz is at the last of several questions of its second category.
C1_Witness ==
  /\ phase = "playing"
  /\ currentCategoryIndex = 1
  /\ currentQuestionIndex >= 1
  /\ currentQuestionIndex = Len(selectedCategories[2].questions) - 1

\* C2.  Between two startCategoryVoting / resetQuiz actions categoryApproved
\* is emitted at most once per category: no suggestCategory, whoever sends
\* it and for whichever category, announces a category announced before.
C2_ApprovedAtMostOnce ==
  \A s \in VotingInputs.suggestions :
    approvedBy(suggestCategory(s[1], s[2])) \cap approvedSent = {}

\* C3.  When toggle-answer takes the answer from hidden to shown on an
\* active question, each player's score changes by exactly +2 (correct, with
\* a bet on that question), +1 (correct, no bet), -1 (incorrect, bet),
\* 0 (incorrect, no bet), and 0 without a non-empty submitted answer.
C3_Delta(player, question) ==
  LET answered == /\ question.id \in DOMAIN player.answers
                  /\ player.answers[question.id] # <<>>
      correct  == checkAnswer(player.answers[question.id], question)
      bet      == question.id \in player.bets
  IN IF ~answered THEN 0
     ELSE IF correct /\ bet THEN 2
     ELSE IF correct THEN 1
     ELSE IF bet THEN -1
     ELSE 0

C3_RevealScores ==
  (~showAnswer /\ hasQuestionAt(currentQuestionIndex)) =>
    LET after == toggleAnswer.state
        question == selectedCategories[currentCategoryIndex + 1]
                      .questions[currentQuestionIndex + 1]
    IN /\ after.showAnswer
       /\ Len(after.players) = Len(players)
       /\ \A i \in 1..Len(players) :
            /\ after.players[i].name = players[i].name
            /\ after.players[i].score = players[i].score + C3_Delta(players[i], question)

\* The answer is shown, and a player who bet on the question and answered it
\* correctly stands at 2 points.
C3_Witness ==
  /\ showAnswer
  /\ hasQuestionAt(currentQuestionIndex)
  /\ \E i \in 1..Len(players) :
       /\ questionAt(currentQuestionIndex).id \in players[i].bets
       /\ players[i].name \in correctPlayers
       /\ players[i].score = 2

\* The probes of C4 and C5: how the claims word startQuiz's guard.
hasThreeSuggesters(k) == Cardinality(suggestedCategories[k].suggesters) >= 3

hasQuestionResolved(k, fileCategories) ==
  \/ Len(suggestedCategories[k].questions) >= 1
  \/ \E c \in 1..Len(fileCategories) :
       /\ toLowerCase(fileCategories[c].name) = toLowerCase(suggestedCategories[k].name)
       /\ Len(fileCategories[c].questions) >= 1

startQuizGuard(fileCategories) ==
  \E k \in 1..Len(suggestedCategories) :
    hasThreeSuggesters(k) /\ hasQuestionResolved(k, fileCategories)

\* C4.  A startQuiz that fails its guard emits an error to the caller and
\* leaves the whole session state unchanged.
C4_FailedStartUnchanged ==
  \A f \in VotingInputs.files :
    ~startQuizGuard(f) =>
      /\ startQuiz(f).state = gameState
      /\ \E e \in startQuiz(f).emitted : e[1] = "error"

\* A category has its three suggesters and no question of its own, in the
\* voting phase: startQuiz fails there when the file gives none.
C4_Witness ==
  /\ phase = "category-voting"
  /\ \E k \in 1..Len(suggestedCategories) : hasThreeSuggesters(k)
  /\ ~startQuizGuard(<<>>)
  /\ players # <<>>

\* C5.  After a successful startQuiz, from whatever phase: phase is
\* 'playing', both indices are 0, showAnswer is false, skipVotes is empty,
\* and selectedCategories is exactly the suggested categories with at least
\* 3 suggesters and at least one question, by non-increasing suggester count.
C5_StartQuizResult ==
  \A f \in VotingInputs.files :
    startQuizGuard(f) =>
      LET after == startQuiz(f).state
          sel == after.selectedCategories
          qualifying == {k \in 1..Len(suggestedCategories) :
                           hasThreeSuggesters(k) /\ hasQuestionResolved(k, f)}
      IN /\ after.phase = "playing"
         /\ after.currentCategoryIndex = 0
         /\ after.currentQuestionIndex = 0
         /\ after.showAnswer = FALSE
         /\ after.skipVotes = {}
         /\ Len(sel) = Cardinality(qualifying)
         /\ \A k \in qualifying : \E i \in 1..Len(sel) :
              /\ sel[i].name = suggestedCategories[k].name
              /\ sel[i].suggesters = suggestedCategories[k].suggesters
              /\ Len(sel[i].questions) >= 1
         /\ \A i, j \in 1..Len(sel) :
              i < j => Cardinality(sel[i].suggesters) >= Cardinality(sel[j].suggesters)

\* The quiz has started with the category suggested second, which has more
\* suggesters, put first.
C5_Witness ==
  /\ phase = "playing"
  /\ Len(selectedCategories) = 2
  /\ Len(suggestedCategories) = 2
  /\ selectedCategories[1].name = suggestedCategories[2].name
  /\ Cardinality(selectedCategories[1].suggesters) = 4
  /\ Cardinality(selectedCategories[2].suggesters) = 3
  /\ currentCategoryIndex = 0 /\ currentQuestionIndex = 0

\* How C6 and C7 word the quorum and the gate.
quorumOf(votes) == Cardinality(votes) >= (Len(players) \div 2) + 1

gateOpen ==
  currentQuestionIndex + 1 >=
    Min2(Cardinality(selectedCategories[currentCategoryIndex + 1].suggesters) - 2, 5)

\* C6.  Skip triggers the instant quorum and gate both hold: in no reachable
\* state is phase 'playing' with the skip votes at quorum and the gate
\* satisfied, the category not having been skipped.
C6_SkipTriggersAtOnce ==
  ~(phase = "playing" /\ quorumOf(skipVotes) /\ gateOpen)

\* C7.  voteSkipCategory advances the category or finishes the quiz only if,
\* with the vote added, the votes are at quorum and the gate is satisfied;
\* with 3 suggesters and currentQuestionIndex 0 the gate is satisfied; a vote
\* of an unknown player or outside 'playing' changes nothing.
C7_VoteSkip ==
  \A p \in SkipInputs.voters :
    LET after == voteSkipCategory(p).state
        moved == \/ after.currentCategoryIndex # currentCategoryIndex
                 \/ after.currentQuestionIndex # currentQuestionIndex
                 \/ after.phase # phase
    IN /\ moved => /\ knownPlayer(p) /\ phase = "playing"
                   /\ quorumOf(skipVotes \cup {p})
                   /\ gateOpen
       /\ (/\ knownPlayer(p) /\ phase = "playing"
           /\ quorumOf(skipVotes \cup {p})
           /\ Cardinality(selectedCategories[currentCategoryIndex + 1].suggesters) = 3
           /\ currentQuestionIndex = 0) => moved
       /\ (~knownPlayer(p) \/ phase # "playing") => after = gameState

\* One of two players has voted on the first question of a category with
\* four suggesters: the other's vote makes the quorum while the gate is shut.
C7_Witness ==
  /\ phase = "playing"
  /\ Len(players) = 2
  /\ Cardinality(skipVotes) = 1
  /\ currentQuestionIndex = 0
  /\ Cardinality(selectedCategories[currentCategoryIndex + 1].suggesters) = 4
  /\ Len(selectedCategories) = 2

\* C8.  placeBet by a known player while a question is active adds to that
\* player's bets exactly the id of the question at currentQuestionIndex + 1
\* of the current category; on the last question of the category, with no
\* question active or for an unknown player it changes nothing; the bet is
\* never on the question being played.
C8_PlaceBet ==
  \A p \in ScoringInputs.bettors :
    LET after == placeBet(p).state
        i == CHOOSE k \in 0..Len(players) :
               (k # 0 /\ players[k].name = p) \/
               (k = 0 /\ \A j \in 1..Len(players) : players[j].name # p)
        active == /\ currentCategoryIndex \in 0..(Len(selectedCategories) - 1)
                  /\ currentQuestionIndex \in
                       0..(Len(selectedCategories[currentCategoryIndex + 1].questions) - 1)
        questions == selectedCategories[currentCategoryIndex + 1].questions
    IN IF i # 0 /\ active /\ currentQuestionIndex + 2 <= Len(questions)
       THEN /\ after = [gameState EXCEPT !.players[i].bets =
                          @ \cup {questions[currentQuestionIndex + 2].id}]
            /\ questions[currentQuestionIndex + 2].id
                 # questions[currentQuestionIndex + 1].id
       ELSE after = gameState

\* A player holds a bet on the question after the one being played, and on
\* nothing else.
C8_Witness ==
  /\ hasQuestionAt(currentQuestionIndex + 1)
  /\ currentQuestionIndex >= 0
  /\ \E i \in 1..Len(players) :
       players[i].bets = {questionAt(currentQuestionIndex + 1).id}

\* C9.  Every change of phase is one of: any phase -> 'category-voting',
\* any phase -> 'lobby', 'category-voting' -> 'playing', 'playing' ->
\* 'finished'.
C9_PhaseTransitions ==
  [][phase' # phase =>
       \/ phase' = "category-voting"
       \/ phase' = "lobby"
       \/ phase = "category-voting" /\ phase' = "playing"
       \/ phase = "playing" /\ phase' = "finished"]_vars

\* C10.  After resetQuiz, from any reachable state, the session equals the
\* initial state, and the public views report phase 'lobby', no players and
\* no categories.  (The steps taken are those that leave the session as
\* resetQuiz leaves it.)
C10_ResetRestoresInitial ==
  [][gameState' = resetQuiz.state =>
       /\ phase' = "lobby"
       /\ players' = <<>>
       /\ suggestedCategories' = <<>>
       /\ selectedCategories' = <<>>
       /\ currentCategoryIndex' = 0
       /\ currentQuestionIndex' = -1
       /\ showAnswer' = FALSE
       /\ skipVotes' = {}
       /\ correctPlayers' = {}
       /\ quizStarted' = FALSE
       /\ getPublicGameState'.phase = "lobby"
       /\ getPlayersWithScores' = <<>>
       /\ \A f \in FileContents : getCategoryVotesPublic(f)' = <<>>]_vars

\* The session is back in the lobby, empty, after a question was added to a
\* suggested category.
C10_Witness ==
  /\ phase = "lobby"
  /\ players = <<>>
  /\ suggestedCategories = <<>>
  /\ generatedIds >= 1

\* Only whitespace, or nothing at all.
blankName(categoryName) ==
  \A i \in 1..Len(categoryName) : categoryName[i] \in {" ", Tab}

\* C11.  suggestCategory is ignored (the whole session state unchanged, no
\* categoryApproved emitted) whenever phase is not 'category-voting' or the
\* category name is empty after trimming.
C11_SuggestIgnored ==
  \A s \in VotingInputs.suggestions :
    (phase # "category-voting" \/ blankName(s[2])) =>
      /\ suggestCategory(s[1], s[2]).state = gameState
      /\ suggestCategory(s[1], s[2]).emitted = {}

\* The quiz is being played with a category that has exactly three
\* suggesters: a suggestion now would announce it again if it were counted.
C11_Witness ==
  /\ phase = "playing"
  /\ \E k \in 1..Len(suggestedCategories) :
       Cardinality(suggestedCategories[k].suggesters) = 3

\* C12.  submitAnswer is silently ignored when phase is not 'playing' or the
\* player is unknown: the player's answers and all other session state are
\* unchanged.
C12_SubmitIgnored ==
  \A a \in ScoringInputs.answers :
    (phase # "playing" \/ ~knownPlayer(a[1])) =>
      submitAnswer(a[1], a[2], a[3]).state = gameState

\* C13.  A player, once created by playerJoin, persists until resetQuiz: a
\* step that removes a name from the roster leaves the session as resetQuiz
\* leaves it; and a playerJoin whose name normalizes to an existing
\* player's leaves the roster (scores, answers, bets) unchanged.
C13_PlayerPersists ==
  /\ [](\A rawName \in ScoringInputs.rawNames :
          knownPlayer(capitalizeName(rawName)) =>
            playerJoin(rawName).state.players = players)
  /\ [][(\E i \in 1..Len(players) :
           \A j \in 1..Len(players') : players'[j].name # players[i].name)
         => gameState' = resetQuiz.state]_vars

\* A player who has a score, an answer and a bet to lose.
C13_Witness ==
  \E i \in 1..Len(players) :
    /\ players[i].score # 0
    /\ DOMAIN players[i].answers # {}
    /\ players[i].bets # {}

\* C14.  toggleAnswer changes player scores only when it takes the reveal
\* flag from hidden to shown; taking it from shown to hidden changes no
\* player's score and leaves the correct-player set empty.
C14_HideScoresNothing ==
  /\ showAnswer =>
       /\ ~toggleAnswer.state.showAnswer
       /\ toggleAnswer.state.players = players
       /\ toggleAnswer.state.correctPlayers = {}
  /\ toggleAnswer.state.players # players =>
       ~showAnswer /\ toggleAnswer.state.showAnswer

\* The answer is shown, a player stands confirmed correct and has points.
C14_Witness ==
  /\ showAnswer
  /\ \E i \in 1..Len(players) :
       players[i].name \in correctPlayers /\ players[i].score > 0

\* C15.  Scoring is not applied again on a re-show: while a question stays
\* active and a player's answer is unchanged, toggleAnswer applies the
\* automatic award or bet penalty for it to that player's score at most
\* once; so it changes nothing in the score of a player already scored.
C15_ScoredAtMostOnce ==
  \A i \in 1..Len(players) :
    players[i].name \in autoScored =>
      toggleAnswer.state.players[i].score = players[i].score

\* C16.  A bet is never recorded on an already-revealed question: placeBet
\* never adds to a player's bets the id of a question whose answer has
\* been shown.
C16_NoBetOnRevealed ==
  \A p \in ScoringInputs.bettors :
    \A i \in 1..Len(players) :
      (placeBet(p).state.players[i].bets \ players[i].bets) \cap revealed = {}

\* C17.  The skip-vote set is emptied by every category advance (by
\* nextCategory, by nextQuestion past the last question, by a skip vote,
\* when more categories remain), by a successful startQuiz and by
\* resetQuiz, and is left unchanged by nextQuestion and prevQuestion when
\* they move within the same category.
C17_SkipVotesCleared ==
  /\ currentCategoryIndex < Len(selectedCategories) - 1 =>
       /\ nextCategory.state.currentCategoryIndex = currentCategoryIndex + 1
       /\ nextCategory.state.skipVotes = {}
       /\ (hasCategory /\ currentQuestionIndex >= Len(category.questions) - 1) =>
            /\ nextQuestion.state.currentCategoryIndex = currentCategoryIndex + 1
            /\ nextQuestion.state.skipVotes = {}
       /\ \A p \in SkipInputs.voters :
            voteSkipCategory(p).state.currentCategoryIndex # currentCategoryIndex =>
              voteSkipCategory(p).state.skipVotes = {}
  /\ \A f \in SkipInputs.files :
       startQuiz(f).emitted = {} => startQuiz(f).state.skipVotes = {}
  /\ resetQuiz.state.skipVotes = {}
  /\ (hasCategory /\ currentQuestionIndex < Len(category.questions) - 1) =>
       /\ nextQuestion.state.currentQuestionIndex = currentQuestionIndex + 1
       /\ nextQuestion.state.skipVotes = skipVotes
  /\ currentQuestionIndex > 0 =>
       /\ prevQuestion.state.currentQuestionIndex = currentQuestionIndex - 1
       /\ prevQuestion.state.skipVotes = skipVotes

\* A vote stands on the second question of the first of two categories:
\* it came through a move within the category and a category advance is
\* still ahead.
C17_Witness ==
  /\ phase = "playing"
  /\ Len(selectedCategories) = 2
  /\ currentCategoryIndex = 0
  /\ currentQuestionIndex = 1
  /\ skipVotes # {}

\* C18.  In every reachable state the mandatory-question count reported by
\* the skip-vote status is at least 1 and at most 5, and equals
\* min(suggesterCount of the current selected category - 2, 5) whenever a
\* current selected category exists.
C18_MandatoryQuestions ==
  /\ getSkipVoteStatus.mandatoryQuestions >= 1
  /\ getSkipVoteStatus.mandatoryQuestions <= 5
  /\ hasCategory =>
       getSkipVoteStatus.mandatoryQuestions =
         (IF Cardinality(category.suggesters) - 2 <= 5
          THEN Cardinality(category.suggesters) - 2 ELSE 5)

\* The current category has eight suggesters: the cap decides.
C18_Witness ==
  /\ phase = "playing"
  /\ hasCategory
  /\ Cardinality(category.suggesters) = 8

\* C19.  In every reachable state, whenever the answer is hidden the set of
\* players confirmed correct on the current question is empty.
C19_HiddenMeansNoneCorrect ==
  ~showAnswer => correctPlayers = {}

\* C20.  nextQuestion, invoked when a current category exists, always leaves
\* the answer hidden: within the category, on entering the next category
\* and on finishing the quiz.
C20_NextQuestionHides ==
  hasCategory => ~nextQuestion.state.showAnswer

\* Every category suggested before the step is suggested after it, with
\* at least the suggesters it had.
suggestersKept ==
  \A k \in 1..Len(suggestedCategories) :
    \E j \in 1..Len(suggestedCategories') :
      /\ suggestedCategories'[j].name = suggestedCategories[k].name
      /\ suggestedCategories[k].suggesters \subseteq suggestedCategories'[j].suggesters

\* C21 as stated.  A suggested category's suggester set never shrinks: for
\* every action, every category suggested before it is still suggested
\* afterwards, with a superset of its suggesters.
C21_NeverShrinks == [][suggestersKept]_vars

\* C21.  A suggested category's suggester set never shrinks, except that
\* startCategoryVoting and resetQuiz discard all suggestions: every step
\* that does not leave the session as one of these two leaves it keeps every
\* suggested category, with a superset of its suggesters.
C21_ShrinksOnlyByDiscard ==
  [][(gameState' # startCategoryVoting.state /\ gameState' # resetQuiz.state)
       => suggestersKept]_vars

\* Two categories are suggested, one of them by several names, and the
\* quiz has been started over them.
C21_Witness ==
  /\ phase = "playing"
  /\ Len(suggestedCategories) = 2
  /\ \E k \in 1..2 : Cardinality(suggestedCategories[k].suggesters) = 4

\* C22.  In every reachable state, if phase is 'finished' then
\* currentQuestionIndex is -1: no question is active once the quiz has
\* finished.
C22_FinishedHasNoQuestion ==
  phase = "finished" => currentQuestionIndex = -1

\* The public game state carries the answer of the current question.
exposed ==
  /\ Len(getPublicGameState.currentQuestion) = 1
  /\ Len(getPublicGameState.currentQuestion[1].answer) = 1

\* The step leaves the same question active.
sameQuestion ==
  /\ hasQuestionAt(currentQuestionIndex)
  /\ currentCategoryIndex' = currentCategoryIndex
  /\ currentQuestionIndex' = currentQuestionIndex
  /\ hasQuestionAt(currentQuestionIndex)'
  /\ questionAt(currentQuestionIndex)' = questionAt(currentQuestionIndex)

\* C23.  The public game-state view exposes the answer of the current
\* question only if toggleAnswer has taken the flag from hidden to shown
\* while that question was active and the question has not changed since:
\* after a step the answer is exposed only when the step left the same
\* question active and either the answer was exposed already or the step
\* is that toggleAnswer; so every step that changes the active question
\* leaves the answer unexposed.
C23_AnswerExposedOnlyByToggle ==
  [][exposed' =>
       /\ sameQuestion
       /\ \/ exposed
          \/ ~showAnswer /\ gameState' = toggleAnswer.state]_vars

\* The answer of a question of the second category is exposed.
C23_Witness ==
  /\ exposed
  /\ currentCategoryIndex = 1
  /\ phase = "playing"

\* The pair (c1, q1) comes before (c2, q2) in lexicographic order.
lexLess(c1, q1, c2, q2) == c1 < c2 \/ (c1 = c2 /\ q1 < q2)

\* C24.  From any state in phase 'playing', if nextQuestion is invoked
\* repeatedly and no addQuestion, prevQuestion, startQuiz,
\* startCategoryVoting or resetQuiz intervenes, the phase eventually becomes
\* 'finished'; and every nextQuestion on the way either finishes the quiz
\* or strictly increases (currentCategoryIndex, currentQuestionIndex) in
\* lexicographic order.
C24_NextQuestionFinishes ==
  /\ [](phase = "playing" =>
          \/ nextQuestion.state.phase = "finished"
          \/ /\ nextQuestion.state.phase = "playing"
             /\ lexLess(currentCategoryIndex, currentQuestionIndex,
                        nextQuestion.state.currentCategoryIndex,
                        nextQuestion.state.currentQuestionIndex))
  /\ (phase = "playing") ~> (phase = "finished")

\* The quiz has run to its end through two categories, the second with a
\* question added to it.
C24_Witness ==
  /\ phase = "finished"
  /\ Len(selectedCategories) = 2
  /\ currentCategoryIndex = 1
  /\ \E k \in 1..2 : Len(selectedCategories[k].questions) = 2

=============================================================================
